---- MODULE Spec2Model ----
(***************************************************************************)
(* create_icons.py: create_icon(size, filename) renders one glyph on a     *)
(* square image, frames it with a border and saves it; the script calls it *)
(* for sizes 16, 48 and 128 and prints a summary line.                     *)
(*                                                                         *)
(* The program counter pc names the statement about to run.  The font      *)
(* files, the glyph metrics they hold and the files on disk are the        *)
(* environment.  Library calls (Pillow) are modelled by their documented   *)
(* contract: truetype raises OSError when the file cannot be read and      *)
(* ValueError when the size is not positive (releases before 10.1 accept   *)
(* it, so both kinds of loader are kept), load_default always returns a    *)
(* font, rectangle draws the outline inside its corner points, save writes *)
(* the file or raises.  Font files change only between two calls.          *)
(***************************************************************************)
EXTENDS Integers, Sequences, FiniteSets, TLC

VARIABLES
    calls,          \* the create_icon calls of the run, in program order
    k,              \* index of the call being run (Len(calls)+1: past the last)
    pc,             \* statement about to run
    size, filename, \* arguments of the running call
    img,            \* local img: [width, height, ops]
    font_size,      \* local font_size
    font,           \* local font: [name, size]
    bbox,           \* local bbox: <<left, top, right, bottom>>
    x, y,           \* local draw position
    border_width,   \* local border_width
    fonts,          \* environment: state of the two font files
    metrics,        \* environment: glyph boxes of the fonts seen so far
    files,          \* environment: path -> <<>> (absent) or <<image>>
    rejects_zero,   \* environment: the font loader refuses a size of 0
    out,            \* lines printed so far
    raised,         \* the exception that ended the program ("" if none)
    avail,          \* history: fonts as they were when the running call began
    tried,          \* history: the fonts the running call tried to load
    hist,           \* history: one record per call that returned
    files0          \* history: files as they were when the program started

args   == <<size, filename>>
locals == <<img, font_size, font, bbox, x, y, border_width>>
env    == <<fonts, metrics, files, rejects_zero>>
aux    == <<avail, tried, hist, files0>>
vars   == <<calls, k, pc, args, locals, env, out, raised, aux>>

-----------------------------------------------------------------------------
(* Bounds of the model *)

MaxSize    == 4    \* the small sizes 1..MaxSize are tried with every glyph box
MaxOff     == 2    \* glyph box offsets range over -1..MaxOff
MaxBox     == 2    \* glyph box extents range over 0..MaxBox

-----------------------------------------------------------------------------
(* Constants of the program *)

CJK     == "/usr/share/fonts/truetype/noto/NotoSansCJK-Regular.ttc"
DejaVu  == "/usr/share/fonts/truetype/dejavu/DejaVuSans.ttf"
Default == "load_default"

bg_color     == <<33, 150, 243>>
White        == <<255, 255, 255>>
BorderColour == <<25, 118, 210>>

Icon16  == "/home/user/chrome_ext_yt_ai/icons/icon16.png"
Icon48  == "/home/user/chrome_ext_yt_ai/icons/icon48.png"
Icon128 == "/home/user/chrome_ext_yt_ai/icons/icon128.png"

\* the script with its first two calls exchanged
ScriptReordered ==
    << [size |-> 48,  filename |-> Icon48],
       [size |-> 16,  filename |-> Icon16],
       [size |-> 128, filename |-> Icon128] >>

\* lines 52-54: the three calls of the script
Script ==
    << [size |-> 16,  filename |-> Icon16],
       [size |-> 48,  filename |-> Icon48],
       [size |-> 128, filename |-> Icon128] >>

Created(f) == <<"Created", f>>
Summary    == <<"All icons created successfully!">>

-----------------------------------------------------------------------------
(* Values *)

Max(a, b) == IF a >= b THEN a ELSE b
Abs(a)    == IF a >= 0 THEN a ELSE -a

NoImage == [width |-> 0, height |-> 0, ops |-> <<>>]
NoFont  == [name |-> "", size |-> 0]
NoBox   == <<0, 0, 0, 0>>

\* a file left by an earlier run
OldImage == [width |-> 1, height |-> 1, ops |-> <<>>]

FontStates == {"ok", "missing", "corrupt"}
Preferred  == {CJK, DejaVu}
Paths      == {Icon16, Icon48, Icon128}

\* an image one row too tall
NewImageTall(s) ==
    [width |-> s, height |-> s + 1,
     ops |-> << [kind |-> "fill", rect |-> <<0, 0, s - 1, s>>, width |-> 0,
                 colour |-> bg_color, font |-> NoFont] >>]

\* line 9: Image.new('RGB', (size, size), bg_color)
NewImage(s) ==
    [width |-> s, height |-> s,
     ops |-> << [kind |-> "fill", rect |-> <<0, 0, s - 1, s - 1>>, width |-> 0,
                 colour |-> bg_color, font |-> NoFont] >>]

\* line 16: int(size * 0.6); for 1 <= size < 5000 the float product truncates
\* to floor(6*size/10)
FontSize(s) == (s * 6) \div 10

\* ImageFont.truetype(path, size): the outcome of loading a font file in the
\* given state at the given size, by a loader that refuses a size of 0
\* (strict) or not
Truetype(state, fs, strict) ==
    IF strict /\ fs <= 0 THEN "ValueError: font size must be greater than 0"
    ELSE IF state = "missing" THEN "OSError: cannot open resource"
    ELSE IF state = "corrupt" THEN "OSError: unknown file format"
    ELSE "ok"

\* a handler for a font file that is not there only
CatchesLookupOnly(e) == e = "OSError: cannot open resource"

\* lines 21, 24: a bare except catches every exception
Catches(e) == TRUE

\* the boxes draw.textbbox((0, 0), text, font) can return: every small box for
\* a small font, boxes of the font's scale for a large one, and the boxes of
\* the fixed-size built-in font
GlyphBoxes(f) ==
    IF f.name = Default
    THEN {<<0, 0, 6, 11>>, <<1, 3, 7, 11>>}
    ELSE IF f.size <= MaxBox
    THEN {<<l, t, l + w, t + h>> : l \in -1..MaxOff, t \in -1..MaxOff,
                                   w \in 0..MaxBox, h \in 0..MaxBox}
    ELSE {<<l, f.size \div 4, l + w, f.size \div 4 + f.size>> :
              l \in {0, 1 + f.size \div 32}, w \in {f.size - 1, f.size}}

\* the width without its lower limit
BorderWidthUnlimited(s) == s \div 32

\* line 40: border_width = max(1, size // 32)
BorderWidth(s) == Max(1, s \div 32)

\* corner points one past the last pixel
BorderRectOutside(s) == <<0, 0, s, s>>

\* line 42: the corner points of the border
BorderRect(s) == <<0, 0, s - 1, s - 1>>

-----------------------------------------------------------------------------
(* What a drawing operation paints *)

InRect(r, p) == r[1] <= p[1] /\ p[1] <= r[3] /\ r[2] <= p[2] /\ p[2] <= r[4]

\* a fill and a glyph paint their rectangle; an outline of width w paints the
\* points of its rectangle less than w away from one of its four sides
Covers(op, p) ==
    LET r == op.rect
        w == op.width
    IN  /\ InRect(r, p)
        /\ op.kind = "outline" =>
             \/ p[1] - r[1] < w \/ r[3] - p[1] < w
             \/ p[2] - r[2] < w \/ r[4] - p[2] < w

\* the colour of pixel p of an image: the last operation that paints p wins;
\* drawing is clipped to the image
InImage(image, p) ==
    0 <= p[1] /\ p[1] < image.width /\ 0 <= p[2] /\ p[2] < image.height

RECURSIVE PaintedBy(_, _, _)
PaintedBy(ops, n, p) ==
    IF n = 0 THEN <<>>
    ELSE IF Covers(ops[n], p) THEN ops[n].colour
    ELSE PaintedBy(ops, n - 1, p)

PixelAt(image, p) ==
    IF InImage(image, p) THEN PaintedBy(image.ops, Len(image.ops), p) ELSE <<>>

-----------------------------------------------------------------------------
(* The initial states *)

InitLocals ==
    /\ size = 0 /\ filename = ""
    /\ img = NoImage /\ font_size = 0 /\ font = NoFont /\ bbox = NoBox
    /\ x = 0 /\ y = 0 /\ border_width = 0

InitEnv ==
    /\ fonts \in [Preferred -> FontStates]
    /\ metrics = <<>>
    /\ files \in {[p \in Paths |-> <<>>], [p \in Paths |-> <<OldImage>>]}
    /\ files0 = files

InitRun ==
    /\ k = 1 /\ pc = "script" /\ out = <<>> /\ raised = ""
    /\ avail = fonts /\ tried = <<>> /\ hist = <<>>

\* the script as written (every font size it asks for is positive, so the
\* kind of loader makes no difference to it)
Init == calls = Script /\ rejects_zero = TRUE /\ InitLocals /\ InitEnv /\ InitRun

\* create_icon on arbitrary arguments: one call for each small size and for
\* the sizes where the border width steps, and the same call twice for each
\* call of the script
SizesFn == (1..MaxSize) \cup {31, 32, 63, 64}

InitFn ==
    /\ calls \in {<<[size |-> s, filename |-> Icon16]>> : s \in SizesFn}
          \cup {<<Script[i], Script[i]>> : i \in 1..Len(Script)}
    /\ rejects_zero \in BOOLEAN
    /\ InitLocals /\ InitEnv /\ InitRun

-----------------------------------------------------------------------------
(* The statements *)

Crash(e) ==
    /\ pc' = "crashed"
    /\ raised' = e

\* create_icon keeping the font an earlier call resolved
CallCreateIconCached ==
    /\ pc = "script" /\ k <= Len(calls)
    /\ size' = calls[k].size
    /\ filename' = calls[k].filename
    /\ img' = NewImage(calls[k].size)
    /\ font_size' = FontSize(calls[k].size)
    /\ bbox' = NoBox /\ x' = 0 /\ y' = 0 /\ border_width' = 0
    /\ avail' = fonts /\ tried' = <<>>
    /\ IF hist = <<>>
       THEN font' = NoFont /\ pc' = "cjk"
       ELSE font' = hist[Len(hist)].font /\ pc' = "textbbox"
    /\ UNCHANGED <<calls, k, env, out, raised, hist, files0>>

\* lines 52-54 and 4-16: the next call of the script enters create_icon
CallCreateIcon ==
    /\ pc = "script" /\ k <= Len(calls)
    /\ size' = calls[k].size
    /\ filename' = calls[k].filename
    /\ img' = NewImage(calls[k].size)
    /\ font_size' = FontSize(calls[k].size)
    /\ font' = NoFont /\ bbox' = NoBox /\ x' = 0 /\ y' = 0 /\ border_width' = 0
    /\ avail' = fonts /\ tried' = <<>>
    /\ pc' = "cjk"
    /\ UNCHANGED <<calls, k, env, out, raised, hist, files0>>

\* the CJK font with no generic font behind it
TryCJKThenDefault ==
    /\ pc = "cjk"
    /\ tried' = Append(tried, CJK)
    /\ LET r == Truetype(fonts[CJK], font_size, rejects_zero) IN
         IF r = "ok"
         THEN font' = [name |-> CJK, size |-> font_size]
              /\ pc' = "textbbox" /\ UNCHANGED raised
         ELSE pc' = "default" /\ UNCHANGED <<font, raised>>
    /\ UNCHANGED <<calls, k, args, img, font_size, bbox, x, y, border_width,
                   env, out, avail, hist, files0>>

\* lines 18-21: try the CJK font
TryCJK ==
    /\ pc = "cjk"
    /\ tried' = Append(tried, CJK)
    /\ LET r == Truetype(fonts[CJK], font_size, rejects_zero) IN
         IF r = "ok"
         THEN font' = [name |-> CJK, size |-> font_size]
              /\ pc' = "textbbox" /\ UNCHANGED raised
         ELSE IF Catches(r)
         THEN pc' = "dejavu" /\ UNCHANGED <<font, raised>>
         ELSE Crash(r) /\ UNCHANGED font
    /\ UNCHANGED <<calls, k, args, img, font_size, bbox, x, y, border_width,
                   env, out, avail, hist, files0>>

\* the generic font with no handler around it
TryDejaVuUnhandled ==
    /\ pc = "dejavu"
    /\ tried' = Append(tried, DejaVu)
    /\ LET r == Truetype(fonts[DejaVu], font_size, rejects_zero) IN
         IF r = "ok"
         THEN font' = [name |-> DejaVu, size |-> font_size]
              /\ pc' = "textbbox" /\ UNCHANGED raised
         ELSE Crash(r) /\ UNCHANGED font
    /\ UNCHANGED <<calls, k, args, img, font_size, bbox, x, y, border_width,
                   env, out, avail, hist, files0>>

\* lines 22-24: try the generic font
TryDejaVu ==
    /\ pc = "dejavu"
    /\ tried' = Append(tried, DejaVu)
    /\ LET r == Truetype(fonts[DejaVu], font_size, rejects_zero) IN
         IF r = "ok"
         THEN font' = [name |-> DejaVu, size |-> font_size]
              /\ pc' = "textbbox" /\ UNCHANGED raised
         ELSE IF Catches(r)
         THEN pc' = "default" /\ UNCHANGED <<font, raised>>
         ELSE Crash(r) /\ UNCHANGED font
    /\ UNCHANGED <<calls, k, args, img, font_size, bbox, x, y, border_width,
                   env, out, avail, hist, files0>>

\* lines 25-26: the built-in font
LoadDefault ==
    /\ pc = "default"
    /\ tried' = Append(tried, Default)
    /\ font' = [name |-> Default, size |-> 0]
    /\ pc' = "textbbox"
    /\ UNCHANGED <<calls, k, args, img, font_size, bbox, x, y, border_width,
                   env, out, raised, avail, hist, files0>>

\* the box of the glyph in font f: the one the font gave before, else any
Known(f) == {i \in 1..Len(metrics) : metrics[i].font = f}

\* lines 29-34: measure the glyph and compute the draw position
TextBBox ==
    /\ pc = "textbbox"
    /\ \E b \in (IF Known(font) # {}
                 THEN {metrics[i].box : i \in Known(font)}
                 ELSE GlyphBoxes(font)) :
         LET text_width  == b[3] - b[1]
             text_height == b[4] - b[2]
         IN  /\ bbox' = b
             /\ x' = (size - text_width) \div 2
             /\ y' = (size - text_height) \div 2 - b[2]
             /\ metrics' = IF Known(font) # {} THEN metrics
                           ELSE Append(metrics, [font |-> font, box |-> b])
    /\ pc' = "text"
    /\ UNCHANGED <<calls, k, args, img, font_size, font, border_width,
                   fonts, files, rejects_zero, out, raised, aux>>

\* the rectangle the glyph's ink lies in when drawn at (px, py)
InkRect(b, px, py) == <<px + b[1], py + b[2], px + b[3] - 1, py + b[4] - 1>>

\* line 37: draw.text((x, y), text, fill='white', font=font)
DrawText ==
    /\ pc = "text"
    /\ img' = [img EXCEPT !.ops = Append(@,
                  [kind |-> "text", rect |-> InkRect(bbox, x, y), width |-> 0,
                   colour |-> White, font |-> font])]
    /\ pc' = "rectangle"
    /\ UNCHANGED <<calls, k, args, font_size, font, bbox, x, y, border_width,
                   env, out, raised, aux>>

\* lines 40-45: the border
DrawRectangle ==
    /\ pc = "rectangle"
    /\ border_width' = BorderWidth(size)
    /\ img' = [img EXCEPT !.ops = Append(@,
                  [kind |-> "outline", rect |-> BorderRect(size),
                   width |-> BorderWidth(size),
                   colour |-> BorderColour, font |-> NoFont])]
    /\ pc' = "save"
    /\ UNCHANGED <<calls, k, args, font_size, font, bbox, x, y,
                   env, out, raised, aux>>

\* what a failed save leaves of the files: the file as it was (it could not be
\* opened) or a truncated one
Truncated == [width |-> 0, height |-> 0, ops |-> <<>>]

FailedSave(fs, f) == {fs, [fs EXCEPT ![f] = <<Truncated>>]}

\* a save that removes the icons when it fails
SaveWithCleanup ==
    /\ pc = "save"
    /\ \/ /\ files' = [files EXCEPT ![filename] = <<img>>]
          /\ pc' = "created"
          /\ UNCHANGED raised
       \/ /\ files' = [p \in Paths |-> <<>>]
          /\ Crash("OSError: cannot write")
    /\ UNCHANGED <<calls, k, args, locals, fonts, metrics, rejects_zero, out, aux>>

\* line 48: img.save(filename) writes the file, or raises and ends the program
Save ==
    /\ pc = "save"
    /\ \/ /\ files' = [files EXCEPT ![filename] = <<img>>]
          /\ pc' = "created"
          /\ UNCHANGED raised
       \/ /\ files' \in FailedSave(files, filename)
          /\ Crash("OSError: cannot write")
    /\ UNCHANGED <<calls, k, args, locals, fonts, metrics, rejects_zero, out, aux>>

\* line 49: print the confirmation and return to the script
Return ==
    /\ pc = "created"
    /\ out' = Append(out, Created(filename))
    /\ hist' = Append(hist, [size |-> size, filename |-> filename, avail |-> avail,
                             tried |-> tried, font |-> font, bbox |-> bbox,
                             xy |-> <<x, y>>, image |-> img])
    /\ k' = k + 1
    /\ pc' = "script"
    /\ size' = 0 /\ filename' = ""
    /\ img' = NoImage /\ font_size' = 0 /\ font' = NoFont /\ bbox' = NoBox
    /\ x' = 0 /\ y' = 0 /\ border_width' = 0
    /\ tried' = <<>>
    /\ UNCHANGED <<calls, env, raised, avail, files0>>

\* line 56: the summary line, after the last call
Finish ==
    /\ pc = "script" /\ k > Len(calls)
    /\ out' = Append(out, Summary)
    /\ pc' = "done"
    /\ UNCHANGED <<calls, k, args, locals, env, raised, aux>>

\* the environment: between two calls font files are installed, removed or
\* damaged (however often: what the next call finds is one new state)
FontChange ==
    /\ pc = "script" /\ 1 < k /\ k <= Len(calls)
    /\ fonts = avail
    /\ fonts' \in [Preferred -> FontStates] \ {fonts}
    /\ UNCHANGED <<calls, k, pc, args, locals, metrics, files, rejects_zero, out,
                   raised, aux>>

Next ==
    \/ CallCreateIcon
    \/ TryCJK
    \/ TryDejaVu
    \/ LoadDefault
    \/ TextBBox
    \/ DrawText
    \/ DrawRectangle
    \/ Save
    \/ Return
    \/ Finish
    \/ FontChange

Spec   == Init /\ [][Next]_vars
SpecFn == InitFn /\ [][Next]_vars
-----------------------------------------------------------------------------
(* Properties *)

SaveError  == "OSError: cannot write"
Chain      == <<CJK, DejaVu, Default>>
FontChosen == pc \in {"textbbox", "text", "rectangle", "save", "created"}
Drawn      == pc \in {"save", "created"}
Last(t)    == t[Len(t)]

\* the last returned call that wrote path p (0 if none)
LastWriter(p) ==
    LET w == {i \in 1..Len(hist) : hist[i].filename = p}
    IN  IF w = {} THEN 0 ELSE CHOOSE i \in w : \A j \in w : j <= i

\* C1: whatever the state of the two preferred fonts, create_icon does not fail
\* on the fonts: the only exception that ever ends the program is a failed
\* save; when neither preferred font can be loaded the call draws with the
\* built-in font, and once the save is through the file at filename holds the
\* image and the call returns with its 'Created' line printed.
C1_DefaultFontFallback ==
    /\ raised \in {"", SaveError}
    /\ pc = "crashed" => raised = SaveError /\ tried # <<>>
    /\ (FontChosen /\ \A f \in Preferred : avail[f] # "ok") =>
          /\ font = [name |-> Default, size |-> 0]
          /\ tried = Chain
    /\ (pc = "created" /\ font.name = Default) =>
          /\ files[filename] = <<img>>
          /\ img.ops[2].font.name = Default
    /\ \A i \in 1..Len(hist) :
          (\A f \in Preferred : hist[i].avail[f] # "ok") =>
             /\ hist[i].font.name = Default
             /\ out[i] = Created(hist[i].filename)

C1_Witness ==
    /\ Len(hist) >= 1
    /\ \A f \in Preferred : hist[1].avail[f] = "missing"
    /\ hist[1].font.name = Default
    /\ files[hist[1].filename] = <<hist[1].image>>
    /\ out[1] = Created(hist[1].filename)

\* the running call tried a preferred font whose file is corrupt
TriedCorrupt == \E i \in 1..Len(tried) : tried[i] \in Preferred /\ avail[tried[i]] = "corrupt"

\* C2 as claimed: a font file that exists but is corrupt is not recovered by
\* the next font of the chain; the failure leaves create_icon and ends the
\* program.
C2_CorruptFontEndsProgram ==
    TriedCorrupt => pc = "crashed" /\ raised = "OSError: unknown file format"

\* C2 as amended: every failure to load a preferred font, a corrupt file like
\* a missing one or a rejected size, is recovered by going on to the next font
\* of the chain; no font failure ever leaves create_icon.
C2_EveryLoadFailureRecovered ==
    /\ raised \notin {"OSError: cannot open resource", "OSError: unknown file format",
                      "ValueError: font size must be greater than 0"}
    /\ \A i \in 1..Len(tried) :
          (tried[i] \in Preferred /\ avail[tried[i]] # "ok") =>
             /\ pc \notin {"script", "cjk", "done"}
             /\ pc = "dejavu" => i = 1 /\ Len(tried) = 1
             /\ pc = "default" => Len(tried) = 2
             /\ FontChosen => /\ Len(tried) > i
                              /\ font.name = Last(tried)
                              /\ font.name # tried[i]

C2_Witness ==
    /\ pc = "text"
    /\ avail[CJK] = "corrupt" /\ avail[DejaVu] = "ok"
    /\ tried = <<CJK, DejaVu>>
    /\ font.name = DejaVu

\* C3: when the save of the k-th call of the script fails the program ends
\* there: nothing can run any more, the lines printed are the 'Created' lines
\* of calls 1..k-1 only (none for call k, no summary), the files of calls
\* 1..k-1 still hold their images and the files of the later calls are as
\* they were before the program started.
C3_FailureEndsTheRun ==
    pc = "crashed" =>
       /\ raised = SaveError
       /\ k \in 1..3
       /\ ~ ENABLED Next
       /\ out = [i \in 1..(k - 1) |-> Created(calls[i].filename)]
       /\ Len(hist) = k - 1
       /\ \A i \in 1..(k - 1) :
             /\ files[calls[i].filename] = <<hist[i].image>>
             /\ hist[i].image.width = calls[i].size
       /\ \A i \in (k + 1)..3 : files[calls[i].filename] = files0[calls[i].filename]

C3_Witness ==
    /\ pc = "crashed" /\ k = 2
    /\ out = <<Created(Icon16)>>
    /\ files[Icon16] = <<hist[1].image>>
    /\ files[Icon128] = files0[Icon128]

ExpectedSizes == <<16, 48, 128>>
ExpectedPaths == <<Icon16, Icon48, Icon128>>
ExpectedOut   == <<Created(Icon16), Created(Icon48), Created(Icon128), Summary>>

Written(i) ==
    /\ Len(files[ExpectedPaths[i]]) = 1
    /\ files[ExpectedPaths[i]][1].width = ExpectedSizes[i]
    /\ Len(files[ExpectedPaths[i]][1].ops) = 3

\* C4: the calls run one after the other in the order 16, 48, 128: what is
\* printed is always a prefix of 'Created icon16', 'Created icon48', 'Created
\* icon128', summary; a line is printed only once its file is written; while
\* a call runs the lines of exactly the earlier calls are printed and no file
\* of a later call is touched; a finished run has printed all four lines.
C4_SequentialOrder ==
    /\ Len(out) <= 4
    /\ out = SubSeq(ExpectedOut, 1, Len(out))
    /\ \A i \in 1..3 : Len(out) >= i => Written(i)
    /\ pc \notin {"script", "done"} =>
          /\ k \in 1..3
          /\ size = ExpectedSizes[k] /\ filename = ExpectedPaths[k]
          /\ Len(out) = k - 1
    /\ pc = "script" => Len(out) = k - 1
    /\ pc = "created" => Written(k)
    /\ \A i \in 1..3 :
          (i > Len(out) + 1 \/ (i = Len(out) + 1 /\ pc \notin {"created", "crashed"}))
             => files[ExpectedPaths[i]] = files0[ExpectedPaths[i]]
    /\ pc = "done" => out = ExpectedOut /\ \A i \in 1..3 : Written(i)

C4_Witness ==
    /\ pc = "done"
    /\ out = ExpectedOut
    /\ \A i \in 1..3 : Written(i)

\* C5: the border width create_icon uses is max(1, floor(size/32)): at least
\* 1, with 32*width <= size < 32*(width+1) from size 32 on; it is 1 for sizes
\* 16 and 48 and 4 for size 128, and it is the width the border is drawn with.
C5_BorderWidth ==
    Drawn =>
       /\ border_width >= 1
       /\ size < 32 => border_width = 1
       /\ size >= 32 => 32 * border_width <= size /\ size < 32 * (border_width + 1)
       /\ size \in {16, 48} => border_width = 1
       /\ size = 128 => border_width = 4
       /\ Last(img.ops).kind = "outline"
       /\ Last(img.ops).width = border_width

C5_Witness ==
    /\ pc = "save"
    /\ size = 128
    /\ border_width = 4
    /\ Last(img.ops).width = 4

\* every point of the frame of width w just inside rectangle r satisfies P
AllOfFrame(r, w, P(_)) ==
    LET cols == (r[1]..(r[1] + w - 1)) \cup ((r[3] - w + 1)..r[3])
        rows == (r[2]..(r[2] + w - 1)) \cup ((r[4] - w + 1)..r[4])
    IN  /\ \A px \in r[1]..r[3] : \A py \in rows : P(<<px, py>>)
        /\ \A px \in cols : \A py \in r[2]..r[4] : P(<<px, py>>)

\* the frame of width w along the four edges of an s x s image
AllOfBand(s, w, P(_)) == AllOfFrame(<<0, 0, s - 1, s - 1>>, w, P)

\* C6: the border is drawn last, from corner (0,0) to corner (size-1,size-1)
\* of a size x size image, so every pixel it paints lies inside the image; and
\* in the image that is saved every pixel of the band of the border width
\* along the four edges has the border colour, also where the glyph had been
\* painted.
C6_BorderInsideImage ==
    Drawn =>
       LET border == Last(img.ops)
       IN  /\ border.kind = "outline"
           /\ border.rect = <<0, 0, size - 1, size - 1>>
           /\ border.width = border_width
           /\ img.width = size /\ img.height = size
           /\ pc = "save" =>
                 AllOfFrame(border.rect, border.width, LAMBDA p : InImage(img, p))
           /\ pc = "created" =>
                 AllOfBand(size, border_width,
                           LAMBDA p : PixelAt(files[filename][1], p) = BorderColour)

\* the glyph had been painted over the corner pixel before the border was drawn
C6_Witness ==
    /\ pc = "created"
    /\ img.ops[2].kind = "text"
    /\ Covers(img.ops[2], <<0, 0>>)
    /\ Covers(img.ops[2], <<size - 1, size - 1>>)
    /\ PixelAt(files[filename][1], <<0, 0>>) = BorderColour

GlyphPlaced == pc \in {"text", "rectangle", "save", "created"}

\* C7: the glyph box drawn at (x, y) has its centre within one pixel of the
\* centre of the image, horizontally and vertically (twice the distances, to
\* stay in the integers): |2x + left + right - size| <= 2 and
\* |2y + top + bottom - size| <= 2.
C7_GlyphCentred ==
    GlyphPlaced =>
       /\ Abs(2 * x + bbox[1] + bbox[3] - size) <= 2
       /\ Abs(2 * y + bbox[2] + bbox[4] - size) <= 2

\* C8: a call writes one file, the one at its filename, with a size x size
\* image: at every moment each path holds what the last returned call that
\* named it wrote (an image as wide and as high as that call's size), or else
\* what it held when the program started; the only exception is the file of
\* the call that is saving now (it holds the image of the call, size x size,
\* or what a failed save left).  A finished run of a call of the script leaves
\* an image of side 16, 48 or 128 at its icon path.
C8_OneFileOfRequestedSize ==
    /\ \A p \in Paths :
          IF pc = "created" /\ p = filename
          THEN files[p] = <<img>> /\ img.width = size /\ img.height = size
          ELSE IF pc = "crashed" /\ p = filename
          THEN files[p] \in {<<Truncated>>}
                   \cup (IF LastWriter(p) = 0 THEN {files0[p]}
                         ELSE {<<hist[LastWriter(p)].image>>})
          ELSE IF LastWriter(p) = 0
          THEN files[p] = files0[p]
          ELSE /\ files[p] = <<hist[LastWriter(p)].image>>
               /\ files[p][1].width = hist[LastWriter(p)].size
               /\ files[p][1].height = hist[LastWriter(p)].size
    /\ pc = "done" =>
          /\ calls[1] = Script[1] => files[Icon16][1].width = 16 /\ files[Icon16][1].height = 16
          /\ calls[1] = Script[2] => files[Icon48][1].width = 48 /\ files[Icon48][1].height = 48
          /\ calls[1] = Script[3] => files[Icon128][1].width = 128 /\ files[Icon128][1].height = 128

C8_Witness ==
    /\ pc = "done"
    /\ calls[1] = Script[3]
    /\ files0 = [p \in Paths |-> <<OldImage>>]
    /\ files[Icon128][1].width = 128 /\ files[Icon128][1].height = 128
    /\ files[Icon16] = <<OldImage>> /\ files[Icon48] = <<OldImage>>

\* C9: two returned calls with the same size under the same state of the font
\* files produce the same image, and after the second the file holds just that
\* image (the earlier file is overwritten); every call resolves its font anew,
\* starting with the CJK font, whatever an earlier call resolved.
C9_Idempotent ==
    /\ \A i \in 1..Len(hist) :
          /\ Len(hist[i].tried) >= 1
          /\ hist[i].tried[1] = CJK
          /\ hist[i].font.name = Last(hist[i].tried)
    /\ \A i \in 1..Len(hist) : \A j \in (i + 1)..Len(hist) :
          (hist[i].size = hist[j].size /\ hist[i].avail = hist[j].avail) =>
             /\ hist[j].image = hist[i].image
             /\ hist[j].font = hist[i].font
             /\ (hist[i].filename = hist[j].filename /\ j = Len(hist)
                 /\ pc \in {"script", "done"})
                   => files[hist[j].filename] = <<hist[i].image>>

C9_Witness ==
    /\ pc = "done" /\ Len(hist) = 2
    /\ hist[1].size = hist[2].size /\ hist[1].filename = hist[2].filename
    /\ hist[1].avail = hist[2].avail
    /\ files0[hist[1].filename] = <<OldImage>>
    /\ files[hist[2].filename] = <<hist[1].image>>

\* the running call has resolved its font as the first entry of the chain that
\* is available, at font size fs for a preferred font
FirstAvailable(fs) ==
    /\ avail[CJK] = "ok" => font = [name |-> CJK, size |-> fs]
    /\ (avail[CJK] # "ok" /\ avail[DejaVu] = "ok") => font = [name |-> DejaVu, size |-> fs]
    /\ (avail[CJK] # "ok" /\ avail[DejaVu] # "ok") => font = [name |-> Default, size |-> 0]
    /\ font.name = Default => (avail[CJK] # "ok" /\ avail[DejaVu] # "ok")

\* the running call tried the chain in order and stopped at the font it chose
StoppedAtFirstSuccess ==
    /\ tried = SubSeq(Chain, 1, Len(tried))
    /\ font.name = Last(tried)

\* C10 as claimed: for every size > 0 the font is the first available entry of
\* the chain, a preferred font at size floor(0.6*size), and resolution stops
\* at the first success.
C10_FirstAvailableFont ==
    FontChosen =>
       /\ 10 * font_size <= 6 * size /\ 6 * size < 10 * (font_size + 1)
       /\ FirstAvailable(font_size)
       /\ StoppedAtFirstSuccess

\* C10 as amended: that holds for every size >= 2.  For size 1 the font size
\* floor(0.6*size) is 0: a font loader that refuses it passes over both
\* preferred fonts, available or not, and the built-in font is used; one that
\* accepts it resolves the chain as for the other sizes.  For every size the
\* chain is tried in order and resolution stops at the first success.
C10_FirstAvailableFontFromSize2 ==
    FontChosen =>
       /\ 10 * font_size <= 6 * size /\ 6 * size < 10 * (font_size + 1)
       /\ size >= 2 => FirstAvailable(font_size)
       /\ size = 1 =>
             /\ font_size = 0
             /\ rejects_zero => font = [name |-> Default, size |-> 0] /\ tried = Chain
             /\ ~ rejects_zero => FirstAvailable(0)
       /\ StoppedAtFirstSuccess

C10_Witness ==
    /\ pc = "text"
    /\ size = 48
    /\ avail[CJK] = "missing" /\ avail[DejaVu] = "ok"
    /\ font = [name |-> DejaVu, size |-> 28]
    /\ tried = <<CJK, DejaVu>>
====
